---- MODULE Spec2Model ----
(***************************************************************************)
(* A model of the three debugging exercises of the repository:             *)
(*   Q1.py                   path_search, a recursive search for a path in *)
(*                           a directed graph given as an adjacency list;  *)
(*   q3.py                   sum_numbers, the sum of a list of integers;   *)
(*   q3_complexity-medium.py retry, a decorator that retries a request     *)
(*                           with exponential backoff.                     *)
(* A behaviour runs one of the three scripts (prog) on one input.          *)
(***************************************************************************)
EXTENDS Integers, Sequences, FiniteSets, TLC

VARIABLES prog,
          graph, start, end, stack, pc, ret, exc,
          nums, total, spc,
          attempt, attempts, slept, rpc, rexc

vars == <<prog, graph, start, end, stack, pc, ret, exc,
          nums, total, spc, attempt, attempts, slept, rpc, rexc>>

q1vars == <<graph, start, end, stack, pc, ret, exc>>
q3vars == <<nums, total, spc>>
retryvars == <<attempt, attempts, slept, rpc, rexc>>

(***************************************************************************)
(* Bounds of the model.                                                    *)
(***************************************************************************)
\* Generated graphs have the nodes 1..NumNodes ...
NumNodes == 3
\* ... and at most MaxEdges edges.
MaxEdges == 3
\* The interpreter's limit on the number of nested path_search frames
\* (sys.getrecursionlimit() is 1000 in CPython; scaled down here, and kept
\* above the number of nodes of every graph of the model).
RecursionLimit == 7
\* Lists given to sum_numbers have at most MaxLen elements ...
MaxLen == 3
\* ... drawn from -MaxAbs..MaxAbs.
MaxAbs == 2
\* Clock ticks per second: random.uniform(0, 1) is one of 0..TicksPerSecond ticks.
TicksPerSecond == 2

(***************************************************************************)
(* Q1.py: the graphs.                                                      *)
(***************************************************************************)
\* The sample graph of the exercise, GRAPH[x] the neighbors of x.
GRAPH == <<
    <<2, 4>>,
    <<5, 4, 1>>,
    <<>>,
    <<6, 3>>,
    <<>>,
    <<1, 3>>
>>

\* Nodes {1,2} only point to each other, 3 is unreachable from them.
CycleGraph == << <<2>>, <<1>>, <<>> >>

\* A graph that names a node (2) which is not a key.
MissingKeyGraph == (1 :> <<2>>)

Nodes == 1..NumNodes

\* The neighbor lists of k nodes, in every order and with repetitions.
NeighborLists(k) == [1..k -> Nodes]

RECURSIVE GraphsOn(_, _)
\* The adjacency lists of the nodes 1..n that hold at most e edges in all.
GraphsOn(n, e) ==
    IF n = 0 THEN {<<>>}
    ELSE UNION {{Append(g, l) : g \in GraphsOn(n - 1, e - k),
                                l \in NeighborLists(k)} : k \in 0..e}

Graphs == GraphsOn(NumNodes, MaxEdges) \cup {GRAPH, CycleGraph, MissingKeyGraph}

RECURSIVE SeqRange(_, _)
SeqRange(s, i) == IF i > Len(s) THEN {} ELSE {s[i]} \cup SeqRange(s, i + 1)

\* Every node identifier a graph mentions, as a key or as a neighbor.
NodesOf(g) == DOMAIN g \cup UNION {SeqRange(g[x], 1) : x \in DOMAIN g}

\* Python's None and a returned list.
None == [none |-> TRUE, path |-> <<>>]
List(p) == [none |-> FALSE, path |-> p]

(***************************************************************************)
(* Q1.py: path_search(start, end, graph).                                  *)
(* stack is the chain of active calls, the innermost last; a frame holds   *)
(* the node the call was given (its `start`) and the position i of the     *)
(* neighbor its for loop is at.  pc is the place of the innermost call:    *)
(*   "call"   entered, at line 19;                                         *)
(*   "loop"   at the head of the for loop, line 25;                        *)
(*   "return" the recursive call of line 27 has returned ret;              *)
(*   "done"   the outermost call has returned ret;                         *)
(*   "raised" an exception (exc) has left the outermost call.              *)
(***************************************************************************)
Frame(n) == [node |-> n, i |-> 1]

Top == stack[Len(stack)]

Pop(s) == SubSeq(s, 1, Len(s) - 1)

\* A return statement of the innermost call, handing v to its caller.
Return(v) ==
    /\ stack' = Pop(stack)
    /\ ret' = v
    /\ pc' = IF Len(stack) = 1 THEN "done" ELSE "return"
    /\ UNCHANGED <<graph, start, end, exc>>
    /\ UNCHANGED <<prog, q3vars, retryvars>>

\* An exception nothing catches: it leaves every active call.
Raise(e) ==
    /\ stack' = <<>>
    /\ pc' = "raised"
    /\ exc' = e
    /\ UNCHANGED <<graph, start, end, ret>>
    /\ UNCHANGED <<prog, q3vars, retryvars>>

TrivialPathEmpty(s) == <<>>
\* line 21: [start]
TrivialPath(s) == <<s>>

ExtendDropsStart(s, path) == path
\* line 29: [start] + path
Extend(s, path) == <<s>> \o path

\* lines 19-21: if start == end: return [start]
ReturnTrivial ==
    /\ pc = "call"
    /\ Top.node = end
    /\ Return(List(TrivialPath(Top.node)))

\* line 22: graph[start] of a node that is no key raises KeyError
RaiseKeyError ==
    /\ pc = "call"
    /\ Top.node # end
    /\ Top.node \notin DOMAIN graph
    /\ Raise("KeyError")

ReturnNoNeighborsAsPath ==
    /\ pc = "call"
    /\ Top.node # end
    /\ Top.node \in DOMAIN graph
    /\ graph[Top.node] = <<>>
    /\ Return(List(<<Top.node>>))
\* lines 22-24: if graph[start] == []: return None
ReturnNoNeighbors ==
    /\ pc = "call"
    /\ Top.node # end
    /\ Top.node \in DOMAIN graph
    /\ graph[Top.node] = <<>>
    /\ Return(None)

\* line 25: the for loop over graph[start] begins
EnterLoop ==
    /\ pc = "call"
    /\ Top.node # end
    /\ Top.node \in DOMAIN graph
    /\ graph[Top.node] # <<>>
    /\ pc' = "loop"
    /\ UNCHANGED <<graph, start, end, stack, ret, exc>>
    /\ UNCHANGED <<prog, q3vars, retryvars>>

\* line 27: path_search(neighbor_node, end, graph)
CallNeighbor ==
    /\ pc = "loop"
    /\ Top.i <= Len(graph[Top.node])
    /\ Len(stack) < RecursionLimit
    /\ stack' = Append(stack, Frame(graph[Top.node][Top.i]))
    /\ pc' = "call"
    /\ UNCHANGED <<graph, start, end, ret, exc>>
    /\ UNCHANGED <<prog, q3vars, retryvars>>

\* line 27, when the interpreter allows no deeper call
RaiseRecursionError ==
    /\ pc = "loop"
    /\ Top.i <= Len(graph[Top.node])
    /\ Len(stack) >= RecursionLimit
    /\ Raise("RecursionError")

\* lines 28-29: if path is not None: return [start] + path
ReturnFound ==
    /\ pc = "return"
    /\ ~ret.none
    /\ Return(List(Extend(Top.node, ret.path)))

\* line 28, path is None: the loop goes on to the next neighbor
NextNeighbor ==
    /\ pc = "return"
    /\ ret.none
    /\ stack' = [stack EXCEPT ![Len(stack)].i = @ + 1]
    /\ pc' = "loop"
    /\ UNCHANGED <<graph, start, end, ret, exc>>
    /\ UNCHANGED <<prog, q3vars, retryvars>>

\* after line 29: the loop is over and the function ends, returning None
FallThrough ==
    /\ pc = "loop"
    /\ Top.i > Len(graph[Top.node])
    /\ Return(None)

InitQ1 ==
    /\ graph \in Graphs
    /\ start \in NodesOf(graph)
    /\ end \in NodesOf(graph)
    /\ stack = <<Frame(start)>>
    /\ pc = "call"
    /\ ret = None
    /\ exc = ""

IdleQ1 ==
    /\ graph = <<>>
    /\ start = 0
    /\ end = 0
    /\ stack = <<>>
    /\ pc = "idle"
    /\ ret = None
    /\ exc = ""

(***************************************************************************)
(* q3.py: sum_numbers(nums).                                               *)
(***************************************************************************)
RECURSIVE SumLoop(_, _, _)
\* lines 10-13: total after the loop has run over nums[i..]
SumLoop(ns, i, t) ==
    IF i > Len(ns) THEN t ELSE SumLoop(ns, i + 1, ns[i])

\* lines 9-13
sum_numbers(ns) == SumLoop(ns, 1, 0)

SumValues == (0 - MaxAbs)..MaxAbs

SumInputs ==
    UNION {[1..n -> SumValues] : n \in 0..MaxLen} \cup {<<1, 2, 3, 4, 5>>}

\* line 17: print(sum_numbers(...))
SumNumbers ==
    /\ prog = "q3"
    /\ spc = "call"
    /\ total' = sum_numbers(nums)
    /\ spc' = "done"
    /\ UNCHANGED <<prog, nums, q1vars, retryvars>>

InitQ3 ==
    /\ nums \in SumInputs
    /\ total = 0
    /\ spc = "call"

IdleQ3 ==
    /\ nums = <<>>
    /\ total = 0
    /\ spc = "idle"

(***************************************************************************)
(* q3_complexity-medium.py: wrapper_retry, the function retry(...) puts    *)
(* around APIClient.get.                                                   *)
(* attempt is the loop variable of `for attempt in range(retries)`,        *)
(* attempts the outcome of every call of the wrapped function so far,      *)
(* slept the duration of every asyncio.sleep so far, in ticks.  rpc is the *)
(* place of the wrapper:                                                   *)
(*   "try"      at the head of the loop, line 58;                          *)
(*   "failed"   an attempt has failed and was logged, at line 72;          *)
(*   "returned" the wrapper has returned the function's result;            *)
(*   "raised"   the wrapper has raised rexc.                               *)
(***************************************************************************)
\* line 91: @retry(retries=3, backoff_in_seconds=1)
retries == 3
backoff_in_seconds == 1

\* The errors the wrapper logs and retries (lines 61-68).
Retried == {"HTTPStatusError", "RequestError"}

\* random.uniform(0, 1), in ticks
Jitter == 0..TicksPerSecond

RECURSIVE Pow2(_)
\* 2**n
Pow2(n) == IF n = 0 THEN 1 ELSE 2 * Pow2(n - 1)

BackoffConstant(a, jitter) == backoff_in_seconds * TicksPerSecond + jitter
\* lines 73-75: backoff_in_seconds * (2**attempt) + random.uniform(0, 1), in ticks
backoff_time(a, jitter) ==
    backoff_in_seconds * Pow2(a) * TicksPerSecond + jitter

InRangeOneMore(a) == a < retries + 1
\* line 58: attempt in range(retries)
InRange(a) == a < retries

SleepsAfterEveryAttempt(a) == TRUE
\* line 72: if attempt < retries - 1
SleepsAfter(a) == a < retries - 1

\* line 78: Exception(f"Failed after {retries} attempts")
FailedAfter(n) == <<"Failed after attempts", n>>

\* lines 59-60: the wrapped function returns and so does the wrapper
AttemptOk ==
    /\ rpc = "try"
    /\ InRange(attempt)
    /\ attempts' = Append(attempts, "ok")
    /\ rpc' = "returned"
    /\ UNCHANGED <<attempt, slept, rexc>>
    /\ UNCHANGED <<prog, q1vars, q3vars>>

\* lines 61-68: an HTTP status error or a request error is logged
AttemptFails ==
    /\ rpc = "try"
    /\ InRange(attempt)
    /\ \E e \in Retried : attempts' = Append(attempts, e)
    /\ rpc' = "failed"
    /\ UNCHANGED <<attempt, slept, rexc>>
    /\ UNCHANGED <<prog, q1vars, q3vars>>

\* lines 69-71: any other exception is logged and raised again
AttemptRaises ==
    /\ rpc = "try"
    /\ InRange(attempt)
    /\ attempts' = Append(attempts, "Exception")
    /\ rpc' = "raised"
    /\ rexc' = <<"Exception", 0>>
    /\ UNCHANGED <<attempt, slept>>
    /\ UNCHANGED <<prog, q1vars, q3vars>>

\* lines 72-77: sleep for the backoff time, then the next attempt
Backoff ==
    /\ rpc = "failed"
    /\ SleepsAfter(attempt)
    /\ \E j \in Jitter : slept' = Append(slept, backoff_time(attempt, j))
    /\ attempt' = attempt + 1
    /\ rpc' = "try"
    /\ UNCHANGED <<attempts, rexc>>
    /\ UNCHANGED <<prog, q1vars, q3vars>>

\* line 72, condition false: on to the next value of the loop
NoBackoff ==
    /\ rpc = "failed"
    /\ ~SleepsAfter(attempt)
    /\ attempt' = attempt + 1
    /\ rpc' = "try"
    /\ UNCHANGED <<attempts, slept, rexc>>
    /\ UNCHANGED <<prog, q1vars, q3vars>>

\* line 78: raise Exception(f"Failed after {retries} attempts")
RaiseFailed ==
    /\ rpc = "try"
    /\ ~InRange(attempt)
    /\ rpc' = "raised"
    /\ rexc' = FailedAfter(retries)
    /\ UNCHANGED <<attempt, attempts, slept>>
    /\ UNCHANGED <<prog, q1vars, q3vars>>

InitRetry ==
    /\ attempt = 0
    /\ attempts = <<>>
    /\ slept = <<>>
    /\ rpc = "try"
    /\ rexc = <<"", 0>>

IdleRetry ==
    /\ attempt = 0
    /\ attempts = <<>>
    /\ slept = <<>>
    /\ rpc = "idle"
    /\ rexc = <<"", 0>>

(***************************************************************************)
(* The specification.                                                      *)
(***************************************************************************)
Init ==
    \/ prog = "Q1" /\ InitQ1 /\ IdleQ3 /\ IdleRetry
    \/ prog = "q3" /\ IdleQ1 /\ InitQ3 /\ IdleRetry
    \/ prog = "q3_medium" /\ IdleQ1 /\ IdleQ3 /\ InitRetry

Next ==
    \/ ReturnTrivial
    \/ RaiseKeyError
    \/ ReturnNoNeighbors
    \/ EnterLoop
    \/ CallNeighbor
    \/ RaiseRecursionError
    \/ ReturnFound
    \/ NextNeighbor
    \/ FallThrough
    \/ SumNumbers
    \/ AttemptOk
    \/ AttemptFails
    \/ AttemptRaises
    \/ Backoff
    \/ NoBackoff
    \/ RaiseFailed

Spec == Init /\ [][Next]_vars

(***************************************************************************)
(* What the claims speak of.                                               *)
(***************************************************************************)
\* x -> y is a directed edge of g.
IsEdge(g, x, y) == x \in DOMAIN g /\ y \in SeqRange(g[x], 1)

\* Every node g mentions is a key of g.
AllKeys(g) == NodesOf(g) \subseteq DOMAIN g

RECURSIVE ReachSet(_, _)
\* The nodes reachable from a node of S along directed edges.
ReachSet(g, S) ==
    LET T == S \cup {y \in NodesOf(g) : \E x \in S : IsEdge(g, x, y)}
    IN  IF T = S THEN S ELSE ReachSet(g, T)

Reachable(g, a, b) == b \in ReachSet(g, {a})

\* p is a path of g from a to b.
IsPath(g, p, a, b) ==
    /\ Len(p) >= 1
    /\ p[1] = a
    /\ p[Len(p)] = b
    /\ \A k \in 1..(Len(p) - 1) : IsEdge(g, p[k], p[k + 1])

\* The outermost call of path_search is over.
Q1Over == pc \in {"done", "raised"}

RECURSIVE SumOf(_, _)
\* ns[i] + ... + ns[Len(ns)]
SumOf(ns, i) == IF i > Len(ns) THEN 0 ELSE ns[i] + SumOf(ns, i + 1)

\* C1: on a graph whose nodes are all keys, a result of path_search(a, b, G)
\* that is not None is a non-empty list that begins with a, ends with b and
\* follows an edge of G at every step.
C1_ReturnedPathIsValid ==
    (pc = "done" /\ AllKeys(graph) /\ ~ret.none)
        => IsPath(graph, ret.path, start, end)

\* path_search(2, 1, GRAPH) has returned [2, 4, 6, 1].
C1_Witness ==
    /\ pc = "done"
    /\ graph = GRAPH
    /\ start = 2
    /\ end = 1
    /\ ret = List(<<2, 4, 6, 1>>)

\* C2: on a graph whose nodes are all keys, if end is reachable from start
\* then path_search(start, end, G) returns a path (not None, no exception).
C2_ReachableFindsPath ==
    (Q1Over /\ AllKeys(graph) /\ Reachable(graph, start, end))
        => (pc = "done" /\ ~ret.none)

\* C3: path_search ends by itself on every graph: the recursion never goes
\* on until the interpreter cuts it off.
C3_RecursionEnds == exc # "RecursionError"

\* C4: on a graph whose nodes are all keys, if end is not reachable from
\* start then path_search(start, end, G) returns None and raises nothing.
C4_UnreachableReturnsNone ==
    (Q1Over /\ AllKeys(graph) /\ ~Reachable(graph, start, end))
        => (pc = "done" /\ ret.none)

\* C5: path_search(n, n, G) returns [n] in its first step: from the entry of
\* the call the only state that follows is the return of [n], no neighbor is
\* called.
C5_TrivialPath ==
    (prog = "Q1" /\ start = end) =>
        \/ pc = "call" /\ stack = <<Frame(start)>>
        \/ pc = "done" /\ stack = <<>> /\ ret = List(<<start>>)

\* path_search(1, 1, GRAPH) has returned, though 1 has neighbors.
C5_Witness ==
    /\ pc = "done"
    /\ graph = GRAPH
    /\ start = 1
    /\ end = 1
    /\ ret = List(<<1>>)

\* C6: when a # b and G[a] is the empty list, path_search(a, b, G) returns
\* None, in its first step.
C6_NoNeighborsNoPath ==
    (prog = "Q1" /\ start # end /\ start \in DOMAIN graph
                 /\ graph[start] = <<>>) =>
        \/ pc = "call" /\ stack = <<Frame(start)>>
        \/ pc = "done" /\ stack = <<>> /\ ret = None

\* path_search(3, 2, GRAPH) has returned None.
C6_Witness ==
    /\ pc = "done"
    /\ graph = GRAPH
    /\ start = 3
    /\ end = 2
    /\ ret = None

\* C7: the wrapper calls the function at most 3 times; a success is the last
\* call and is followed by the return of the wrapper; when every call fails
\* with an HTTP status error or a request error, the wrapper ends only after
\* exactly 3 calls and by raising "Failed after 3 attempts".
C7_AtMostThreeAttempts ==
    /\ Len(attempts) <= 3
    /\ \A k \in 1..Len(attempts) :
          attempts[k] = "ok" => (k = Len(attempts) /\ rpc = "returned")
    /\ rpc = "returned" =>
          (attempts # <<>> /\ attempts[Len(attempts)] = "ok")
    /\ (rpc \in {"returned", "raised"}
            /\ \A k \in 1..Len(attempts) : attempts[k] \in Retried)
          => (rpc = "raised" /\ rexc = FailedAfter(3) /\ Len(attempts) = 3)
    /\ rexc = FailedAfter(3) =>
          (Len(attempts) = 3 /\ \A k \in 1..3 : attempts[k] \in Retried)

\* Three calls have failed and the wrapper has raised.
C7_Witness ==
    /\ rpc = "raised"
    /\ rexc = FailedAfter(3)
    /\ attempts = <<"HTTPStatusError", "RequestError", "HTTPStatusError">>

\* C9: the chain of active calls of path_search holds no node twice, and so
\* is never longer than the number of nodes of the graph.
C9_NoNodeTwiceOnStack ==
    /\ \A j, k \in 1..Len(stack) : j # k => stack[j].node # stack[k].node
    /\ Len(stack) <= Cardinality(NodesOf(graph))

\* C10: the k-th sleep (after the failed attempt of index k - 1 = 0, 1)
\* lasts between 2^(k-1) and 2^(k-1) + 1 seconds; attempt k is started only
\* after k sleeps; there is no sleep after the failed attempt of index 2.
C10_ExponentialBackoff ==
    /\ \A k \in 1..Len(slept) :
          /\ slept[k] >= 1 * Pow2(k - 1) * TicksPerSecond
          /\ slept[k] <= (1 * Pow2(k - 1) + 1) * TicksPerSecond
    /\ Len(slept) <= 2
    /\ (prog = "q3_medium" /\ attempt <= 2) => Len(slept) = attempt
    /\ rexc = FailedAfter(3) => Len(slept) = 2

\* Three calls have failed; the wrapper slept 1 s and then 3 s, and raised.
C10_Witness ==
    /\ rpc = "raised"
    /\ rexc = FailedAfter(3)
    /\ slept = <<1 * TicksPerSecond, 3 * TicksPerSecond>>

\* C8: sum_numbers(nums) is the sum of the numbers of nums.
C8_SumOfList == spc = "done" => total = SumOf(nums, 1)

====
